---------------------------- MODULE Spec2Model ----------------------------
(***************************************************************************)
(* A model of the two tutorial notebooks of the repository:                *)
(*                                                                         *)
(*   src/learn/tutorials/Set-Partition-Tutorial.ipynb  (specification      *)
(*       SpecSP): the set-partition encoder (X, A, b, J, h, offset, P,     *)
(*       objective, alpha, Q) and the result interpreter check_result;     *)
(*   src/unnamed/part_000, the Dirac-3 tutorial (specification Spec):      *)
(*       sample_hamiltonian, get_results and the three cells calling them. *)
(*                                                                         *)
(* Numbers.  The set weights W are floats 100*random(); they are kept here *)
(* as integers in units of 10^-5, so that every sum and product of the     *)
(* notebook is exact integer arithmetic.                                   *)
(*                                                                         *)
(* Arrays.  A two-dimensional numpy array is a sequence of rows.  The one  *)
(* exception is the constraint matrix A, whose rows follow the iteration   *)
(* order of the Python set X: that order is arbitrary, and every use of A  *)
(* (A.T@A, b.T@A, A@s) sums over the rows or treats them alike, so A is a  *)
(* function from the members of X to rows.                                 *)
(***************************************************************************)
EXTENDS Integers, Sequences, FiniteSets, Bags, TLC

VARIABLES
    \* ---- Set-Partition-Tutorial.ipynb: the kernel's globals
    S,                      \* the collection, a list of sets
    W,                      \* the weights, one per set
    X,                      \* the union of the S_i
    A,                      \* constraint matrix, rows keyed by x \in X
    b,                      \* right-hand side, keyed by x \in X
    J, h, offset,           \* the penalty's quadratic, linear, constant part
    P,                      \* the penalty-only QUBO
    objective, alpha, Q,    \* the objective matrix, the multiplier, the QUBO
    sp_file_id,             \* file_id of the last upload of this notebook
    body,                   \* the last job body of this notebook
    sp_response,            \* which job's response `response` holds
    penalty_only_response,  \* the response saved by cell 13
    printed,                \* what check_result printed for the last sample
    pcSP,                   \* the next cell of the notebook to run
    \* ---- the Dirac-3 tutorial (src/unnamed/part_000)
    cell,                   \* the cell that is running: cell4, cell5, cell8, end
    pc,                     \* the statement of that cell that runs next
    iteration,              \* the index of the running loop iteration, from 0
    H, file_id, job_body,   \* locals of sample_hamiltonian
    sh_response,            \* its local `response`
    response, results,      \* the kernel's globals of these names
    super_test,             \* the solution counts of the degeneracy loop
    error,                  \* the exception that ended the run, if any
    \* ---- the remote service and the history of the calls made to it
    ops,                    \* the client calls of the running sample_hamiltonian
    files,                  \* the number of files the service has stored
    jobs,                   \* the number of jobs the service has accepted
    outstanding,            \* the accepted jobs that are not yet terminal
    parsed,                 \* get_results has returned a value for `response`
    \* ---- both notebooks
    uploaded,               \* the argument of the last upload_file call
    \* ---- the Dirac-3 tutorial: the value of the polynomial at a solution
    example,                \* which cell's h and J the kernel holds: 1, 2, 3
    Rsum,                   \* the summation constraint of the call
    solution,               \* a solution vector, in steps of solution_precision
    solution_value,         \* h.T@solution + solution.T@J@solution
    known_ground_state,     \* h.T@x + x.T@J@x for x = np.array([400, 0, 0])
    pcH                     \* the statement of the evaluation that runs next

varsD == <<cell, pc, iteration, H, file_id, job_body, sh_response, response, results,
           super_test, error, ops, files, jobs, outstanding, parsed>>

varsSP == <<S, W, X, A, b, J, h, offset, P, objective, alpha, Q, sp_file_id,
            body, sp_response, penalty_only_response, printed, pcSP>>

varsH == <<example, Rsum, solution, solution_value, known_ground_state, pcH>>

vars == <<varsSP, varsD, uploaded, varsH>>

---------------------------------------------------------------------------
(* Bounds of the model *)

\* members of the universe of a generic collection: the first MaxElems letters
MaxElems == 2
\* sets in a generic collection
MaxSets == 2
\* a generic weight is one of 1..MaxWeight (in units of 10^-5)
MaxWeight == 2

\* the largest summation constraint for which solutions are enumerated
MaxSumConstraint == 7

---------------------------------------------------------------------------
(* Arithmetic on arrays *)

RECURSIVE SumTo(_, _)
SumTo(f, k) == IF k = 0 THEN 0 ELSE f[k] + SumTo(f, k - 1)

\* the sum of a sequence of numbers
SumSeq(f) == SumTo(f, Len(f))

RECURSIVE SumFcn(_)
\* the sum of the values of a function with a finite domain
SumFcn(f) ==
    IF DOMAIN f = {} THEN 0
    ELSE LET x == CHOOSE y \in DOMAIN f : TRUE
         IN  f[x] + SumFcn([y \in DOMAIN f \ {x} |-> f[y]])

Max(a, c) == IF a >= c THEN a ELSE c

RECURSIVE MaxTo(_, _)
MaxTo(f, k) == IF k = 1 THEN f[1] ELSE Max(f[k], MaxTo(f, k - 1))

\* np.max of a two-dimensional array with at least one row and column
MatMax(M) == MaxTo([r \in 1..Len(M) |-> MaxTo(M[r], Len(M[r]))], Len(M))

\* M + N of two arrays of the same shape
MatAdd(M, N) ==
    [r \in 1..Len(M) |-> [c \in 1..Len(M[r]) |-> M[r][c] + N[r][c]]]

\* k * M
MatScale(k, M) == [r \in 1..Len(M) |-> [c \in 1..Len(M[r]) |-> k * M[r][c]]]

\* np.diag(v) of a one-dimensional v
Diag(v) == [r \in 1..Len(v) |-> [c \in 1..Len(v) |-> IF r = c THEN v[r] ELSE 0]]

\* s.T @ M @ s
Quad(M, s) ==
    SumSeq([r \in 1..Len(M) |->
               s[r] * SumSeq([c \in 1..Len(M[r]) |-> M[r][c] * s[c]])])

\* v.T @ s for a column v
Dot(v, s) == SumSeq([r \in 1..Len(v) |-> v[r] * s[r]])

\* the binary vectors of length n
BinaryVectors(n) == [1..n -> {0, 1}]

---------------------------------------------------------------------------
(* Python values shared by the two notebooks *)

\* None
None == [none |-> TRUE]

\* nothing has been handed to upload_file yet
NoUpload == [file_type |-> "none", data |-> << >>]

---------------------------------------------------------------------------
(* The Dirac-3 tutorial: the data of its cells *)

\* coefficients are kept in halves, so that -2.5 is the integer -5
CoefScale == 2

\* solution_precision = 0.1, in units of 10^-5
SolutionPrecision == 10000

\* cell 3: h and J of the first example
h1 == << <<-1 * CoefScale>>, <<0>>, <<0>> >>

J1 == << <<0, 1 * CoefScale, 1 * CoefScale>>,
         <<1 * CoefScale, 0, 1 * CoefScale>>,
         <<1 * CoefScale, 1 * CoefScale, 0>> >>

\* cell 5: h and J of H(x) = -5 x1 x3 - 4 x2^2 - 10 x1 - 10 x3
h2 == << <<-10 * CoefScale>>, <<0>>, <<-10 * CoefScale>> >>

\* the quadratic coefficient -5 of x1 x3 written whole into both halves of J
J2Unhalved == << <<0, 0, -5 * CoefScale>>,
                 <<0, -4 * CoefScale, 0>>,
                 <<-5 * CoefScale, 0, 0>> >>

J2 == << <<0, 0, -5>>,
         <<0, -4 * CoefScale, 0>>,
         <<-5, 0, 0>> >>

\* the linear terms of the first example left in place
h3Unchanged == << <<-1 * CoefScale>>, <<0>>, <<0>> >>

\* cell 7: h and J of the degenerate example
h3 == << <<-1 * CoefScale>>, <<-1 * CoefScale>>, <<-1 * CoefScale>> >>

J3 == J1

\* cell 5: for S in [2, 3, 4, 5, 6, 7]
SValues == <<2, 3, 4, 5, 6, 7>>

\* cell 8: for i in range(10)
DegeneracyRuns == 10

\* the iterations of the cell: one call in cell 4, a loop in cells 5 and 8
Iterations(c) ==
    CASE c = "cell4" -> 1
      [] c = "cell5" -> Len(SValues)
      [] c = "cell8" -> DegeneracyRuns
      [] OTHER -> 0

\* the calls with sum_constraint and schedule in each other's place
CallArgsSwapped(c, i) ==
    CASE c = "cell4" ->
           [C |-> h1, J |-> J1, sum_constraint |-> 1, schedule |-> 400,
            solution_precision |-> SolutionPrecision]
      [] c = "cell5" ->
           [C |-> h2, J |-> J2, sum_constraint |-> 3, schedule |-> SValues[i + 1],
            solution_precision |-> SolutionPrecision]
      [] OTHER ->
           [C |-> h3, J |-> J3, sum_constraint |-> 1, schedule |-> 400,
            solution_precision |-> SolutionPrecision]

\* the arguments of the sample_hamiltonian call of cell c, iteration i
CallArgs(c, i) ==
    CASE c = "cell4" ->
           [C |-> h1, J |-> J1, sum_constraint |-> 400, schedule |-> 1,
            solution_precision |-> SolutionPrecision]
      [] c = "cell5" ->
           [C |-> h2, J |-> J2, sum_constraint |-> SValues[i + 1], schedule |-> 3,
            solution_precision |-> SolutionPrecision]
      [] OTHER ->
           [C |-> h3, J |-> J3, sum_constraint |-> 400, schedule |-> 1,
            solution_precision |-> SolutionPrecision]

---------------------------------------------------------------------------
(* The Dirac-3 tutorial: what the remote service may answer *)

\* response["job_info"]["job_result"]
JobResult == [device_usage_s |-> 1]

JobStatuses == {"completed", "error"}

\* the job_info records: job_result and details are each there or not
JobInfos(id) ==
    {[job_id |-> id]}
        \cup {[job_id |-> id, job_result |-> JobResult]}
        \cup {[job_id |-> id, details |-> [status |-> st]] : st \in JobStatuses}
        \cup {[job_id |-> id, job_result |-> JobResult, details |-> [status |-> st]] :
                  st \in JobStatuses}

\* the keys a results file_config may hold
ResultKeys ==
    {"normalized_qudit_hamiltonian_optimization_continuous_results", "other_results"}

\* one entry of a file_config: the samples, solution values in hundredths, or
\* an entry without them
Payloads ==
    {[counts |-> <<1>>, energies |-> <<-400>>, solutions |-> << <<40000, 0, 0>> >>],
     [counts |-> <<1>>]}

FileConfigs == UNION {[D -> Payloads] : D \in SUBSET ResultKeys}

\* response["results"]: None, a record without file_config, or one with it
ResultsValues ==
    {None, [num_parts |-> 1]}
        \cup {[num_parts |-> 1, file_config |-> fc] : fc \in FileConfigs}

\* the responses process_job may return for job id: job_info and results are
\* each there or not
Responses(id) ==
    {<< >>}
        \cup {[job_info |-> ji] : ji \in JobInfos(id)}
        \cup {[results |-> r] : r \in ResultsValues}
        \cup {[job_info |-> ji, results |-> r] : ji \in JobInfos(id), r \in ResultsValues}

---------------------------------------------------------------------------
(* The Dirac-3 tutorial: sample_hamiltonian and get_results *)

\* the column C stacked on top of J instead of beside it (np.vstack)
HamiltonianStacked(C, Jm) == << [c \in 1..Len(C) |-> C[c][1]] >> \o Jm

\* H = np.hstack([C.reshape([n, 1]), J]) with n = C.shape[0]
Hamiltonian(C, Jm) == [r \in 1..Len(C) |-> <<C[r][1]>> \o Jm[r]]

\* ham_file
HamFile(Hm) == [file_type |-> "hamiltonian", data |-> Hm]

\* the job body built from the file id of an earlier upload
JobBodyStaleFile(fid, a) ==
    [job_type |-> "sample-hamiltonian", hamiltonian_file_id |-> fid - 1,
     sampler_type |-> "dirac-3", nsamples |-> 1,
     solution_precision |-> a.solution_precision,
     sum_constraint |-> a.sum_constraint, relaxation_schedule |-> a.schedule,
     job_tags |-> <<"qudit-tutorial">>]

\* client.build_job_body(job_type="sample-hamiltonian", hamiltonian_file_id=file_id,
\*                       job_params={...}, job_tags=job_tags)
JobBody(fid, a) ==
    [job_type |-> "sample-hamiltonian", hamiltonian_file_id |-> fid,
     sampler_type |-> "dirac-3", nsamples |-> 1,
     solution_precision |-> a.solution_precision,
     sum_constraint |-> a.sum_constraint, relaxation_schedule |-> a.schedule,
     job_tags |-> <<"qudit-tutorial">>]

NoJobBody == JobBody(0, [solution_precision |-> 0, sum_constraint |-> 0, schedule |-> 0])

\* "results" in response and response["results"] is not None
HasResults(resp) == "results" \in DOMAIN resp /\ resp.results # None

\* the details of the RuntimeError
Details(resp) ==
    IF "job_info" \in DOMAIN resp /\ "job_result" \in DOMAIN resp.job_info
    THEN resp.job_info.job_result
    ELSE None

\* get_results that returns None where it should raise
GetResultsNoRaise(resp) ==
    IF HasResults(resp)
    THEN IF "file_config" \notin DOMAIN resp.results
         THEN [outcome |-> "raise", type |-> "KeyError", message |-> "file_config",
               details |-> None, value |-> None]
         ELSE IF Cardinality(DOMAIN resp.results.file_config) # 1
              THEN [outcome |-> "raise", type |-> "AssertionError",
                    message |-> "Unknown results format",
                    details |-> None, value |-> None]
              ELSE [outcome |-> "return", type |-> "", message |-> "", details |-> None,
                    value |-> resp.results.file_config[
                                  CHOOSE key \in DOMAIN resp.results.file_config : TRUE]]
    ELSE [outcome |-> "return", type |-> "", message |-> "", details |-> None, value |-> None]

\* get_results without its assert: the first entry of whatever is there
GetResultsNoAssert(resp) ==
    IF HasResults(resp)
    THEN IF "file_config" \notin DOMAIN resp.results
         THEN [outcome |-> "raise", type |-> "KeyError", message |-> "file_config",
               details |-> None, value |-> None]
         ELSE IF DOMAIN resp.results.file_config = {}
              THEN [outcome |-> "raise", type |-> "IndexError",
                    message |-> "list index out of range",
                    details |-> None, value |-> None]
              ELSE [outcome |-> "return", type |-> "", message |-> "", details |-> None,
                    value |-> resp.results.file_config[
                                  CHOOSE key \in DOMAIN resp.results.file_config : TRUE]]
    ELSE [outcome |-> "raise", type |-> "RuntimeError",
          message |-> "Execution failed. See details", details |-> Details(resp),
          value |-> None]

\* get_results that looks at the job's status before it reads the results
GetResultsOfCompleted(resp) ==
    IF /\ HasResults(resp)
       /\ "job_info" \in DOMAIN resp
       /\ "details" \in DOMAIN resp.job_info
       /\ resp.job_info.details.status = "completed"
    THEN IF "file_config" \notin DOMAIN resp.results
         THEN [outcome |-> "raise", type |-> "KeyError", message |-> "file_config",
               details |-> None, value |-> None]
         ELSE IF Cardinality(DOMAIN resp.results.file_config) # 1
              THEN [outcome |-> "raise", type |-> "AssertionError",
                    message |-> "Unknown results format",
                    details |-> None, value |-> None]
              ELSE [outcome |-> "return", type |-> "", message |-> "", details |-> None,
                    value |-> resp.results.file_config[
                                  CHOOSE key \in DOMAIN resp.results.file_config : TRUE]]
    ELSE [outcome |-> "raise", type |-> "RuntimeError",
          message |-> "Execution failed. See details", details |-> Details(resp),
          value |-> None]

\* get_results(response): what it returns, or the exception it raises
GetResults(resp) ==
    IF HasResults(resp)
    THEN IF "file_config" \notin DOMAIN resp.results
         THEN [outcome |-> "raise", type |-> "KeyError", message |-> "file_config",
               details |-> None, value |-> None]
         ELSE IF Cardinality(DOMAIN resp.results.file_config) # 1
              THEN [outcome |-> "raise", type |-> "AssertionError",
                    message |-> "Unknown results format",
                    details |-> None, value |-> None]
              ELSE [outcome |-> "return", type |-> "", message |-> "", details |-> None,
                    value |-> resp.results.file_config[
                                  CHOOSE key \in DOMAIN resp.results.file_config : TRUE]]
    ELSE [outcome |-> "raise", type |-> "RuntimeError",
          message |-> "Execution failed. See details", details |-> Details(resp),
          value |-> None]

\* no exception
NoError == [type |-> "", message |-> "", from |-> "", details |-> None]

\* the names of the client calls made so far by the running sample_hamiltonian
OpNames == [i \in 1..Len(ops) |-> ops[i].op]

\* process_job has not returned yet
Pending == [pending |-> TRUE]

\* the Dirac-3 notebook is not running
IdleD ==
    /\ cell = "idle" /\ pc = "idle" /\ iteration = 0
    /\ H = << >> /\ file_id = 0 /\ job_body = NoJobBody
    /\ sh_response = << >> /\ response = << >> /\ results = None
    /\ super_test = << >>
    /\ error = NoError
    /\ ops = << >> /\ files = 0 /\ jobs = 0 /\ outstanding = 0 /\ parsed = FALSE

\* no solution is being evaluated
IdleH ==
    /\ example = 0 /\ Rsum = 0 /\ solution = << >>
    /\ solution_value = 0 /\ known_ground_state = 0
    /\ pcH = "idle"

---------------------------------------------------------------------------
(* Set-Partition-Tutorial.ipynb: the data *)

Letters == <<"A", "B", "C", "D", "E", "F">>

\* cell 2: the collection of 9 sets
TutorialS ==
    << {"A", "B", "C"}, {"D", "E", "F"}, {"A", "F"}, {"B", "E"}, {"C", "D"},
       {"A"}, {"B"}, {"C", "D", "E"}, {"B", "C"} >>

\* cell 2: W = [100 * np.random.random() for S_i in S] under seed 21, the
\* values shown by cell 14, rounded to 5 decimals
TutorialW ==
    << 487249, 2891097, 7209663, 216162, 2059228, 507733, 3022719, 6639103,
       3081144 >>

\* the union of a list of sets (cell 3)
UnionOf(s) == UNION {s[i] : i \in DOMAIN s}

\* the sequences of length 1..n over D
SeqUpTo(D, n) == UNION {[1..k -> D] : k \in 1..n}

\* the collections and weights the model runs the notebook on: the tutorial's
\* own, and every small collection over the first MaxElems letters
GenericUniverse == {Letters[k] : k \in 1..MaxElems}

GenericCollections ==
    {s \in SeqUpTo(SUBSET GenericUniverse, MaxSets) : UnionOf(s) # {}}

Inputs ==
    {<<TutorialS, TutorialW>>}
        \cup {<<s, w>> : s \in GenericCollections, w \in SeqUpTo(1..MaxWeight, MaxSets)}

---------------------------------------------------------------------------
(* Set-Partition-Tutorial.ipynb: the encoder *)

\* cell 4: row = [1 if x in S_i else 0 for S_i in S], for x in X
ConstraintMatrix(s, xs) ==
    [x \in xs |-> [i \in 1..Len(s) |-> IF x \in s[i] THEN 1 ELSE 0]]

\* cell 5: b = np.ones((A.shape[0],))
Ones(Am) == [x \in DOMAIN Am |-> 1]

\* the number of columns of A
Cols(Am) == Len(Am[CHOOSE x \in DOMAIN Am : TRUE])

\* cell 6: J = A.T@A
QuadraticTerms(Am) ==
    [i \in 1..Cols(Am) |-> [j \in 1..Cols(Am) |->
        SumFcn([x \in DOMAIN Am |-> Am[x][i] * Am[x][j]])]]

\* h = -b.T@A: the factor 2 of the cross term left out
LinearTermsNoFactor(Am, bm) ==
    [i \in 1..Cols(Am) |-> -SumFcn([x \in DOMAIN Am |-> bm[x] * Am[x][i]])]

\* cell 6: h = -2 * b.T@A, reshaped to a column of n entries
LinearTerms(Am, bm) ==
    [i \in 1..Cols(Am) |-> -2 * SumFcn([x \in DOMAIN Am |-> bm[x] * Am[x][i]])]

\* cell 6: offset = b.T@b
Offset(bm) == SumFcn([x \in DOMAIN bm |-> bm[x] * bm[x]])

\* P = J + h: the column h broadcast over the columns of J
PenaltyQuboBroadcast(Jm, hm) ==
    [r \in 1..Len(Jm) |-> [c \in 1..Len(Jm[r]) |-> Jm[r][c] + hm[r]]]

\* the linear terms subtracted from the diagonal: J - np.diag(h)
PenaltyQuboSubtract(Jm, hm) == MatAdd(Jm, Diag([i \in 1..Len(hm) |-> -hm[i]]))

\* cell 8: P = J + np.diag(h.T[0])
PenaltyQubo(Jm, hm) == MatAdd(Jm, Diag(hm))

\* the weights repeated in every row instead of placed on the diagonal
ObjectiveMatrixTiled(w, s) == [r \in 1..Len(s) |-> [c \in 1..Len(s) |-> w[c]]]

\* cell 14: objective = np.diag([W[i] for i in range(len(S))])
ObjectiveMatrix(w, s) == Diag([i \in 1..Len(s) |-> w[i]])

\* the smallest entry of the objective matrix instead of the largest (np.min)
AlphaMin(obj) == -MatMax(MatScale(-1, obj))

\* cell 15: alpha = np.max(objective)
Alpha(obj) == MatMax(obj)

\* cell 16: Q = objective + alpha * P
TotalQubo(obj, a, Pm) == MatAdd(obj, MatScale(a, Pm))

\* the markdown's P(s) = s^T (A^T A) s - (2 b^T A)^T s + b^T b, from J, h, offset
Penalty(s) == Quad(J, s) + Dot(h, s) + offset

\* A s = b
Feasible(s) ==
    \A x \in DOMAIN A : SumSeq([i \in 1..Len(s) |-> A[x][i] * s[i]]) = b[x]

---------------------------------------------------------------------------
(* Set-Partition-Tutorial.ipynb: check_result *)

RECURSIVE CheckLoop(_, _, _, _, _)
\* the loop `for i in range(len(S))` of check_result, from index i on
CheckLoop(i, sample, selected, testX, members) ==
    IF i >= Len(S)
    THEN [selected |-> selected, testX |-> testX, members |-> members]
    ELSE IF sample[i + 1] = 1
         THEN CheckLoop(i + 1, sample, Append(selected, i),
                        testX \cup S[i + 1], members (+) SetToBag(S[i + 1]))
         ELSE CheckLoop(i + 1, sample, selected, testX, members)

\* the coverage taken from the list of members instead of their union
CoverageOfMembers(testX, members) ==
    [num |-> 100 * BagCardinality(members), den |-> Cardinality(X)]

\* 100*len(testX)/len(X), kept as numerator and denominator
Coverage(testX, members) == [num |-> 100 * Cardinality(testX), den |-> Cardinality(X)]

\* no test at all: any selection counts as a partition
PartitionFoundAlways(testX, members) == Cardinality(testX) <= BagCardinality(members)

\* len(testX)==len(members)
PartitionFound(testX, members) == Cardinality(testX) = BagCardinality(members)

\* sample.T@objective@sample
ObjectiveValue(obj, sample) == Quad(obj, sample)

\* what one iteration of `for j, sample in enumerate(samples)` prints;
\* withObjective is `objective is not None`
CheckSample(sample, withObjective) ==
    LET l == CheckLoop(0, sample, << >>, {}, EmptyBag)
    IN  [valid          |-> TRUE,
         sample         |-> sample,
         hasObjective   |-> withObjective,
         objectiveValue |-> IF withObjective THEN ObjectiveValue(objective, sample) ELSE 0,
         selected       |-> l.selected,
         coverage       |-> Coverage(l.testX, l.members),
         partition      |-> PartitionFound(l.testX, l.members)]

NothingPrinted ==
    [valid |-> FALSE, sample |-> << >>, hasObjective |-> FALSE, objectiveValue |-> 0,
     selected |-> << >>, coverage |-> [num |-> 0, den |-> 1], partition |-> FALSE]

---------------------------------------------------------------------------
(* Set-Partition-Tutorial.ipynb: the cells, in the order of the notebook *)

NoBody == [job_type |-> "", qubo_file_id |-> 0, sampler_type |-> "", n_samples |-> 0]

\* cell 2: S and W are set; nothing else is
InitSP ==
    /\ \E in \in Inputs : S = in[1] /\ W = in[2] /\ Len(in[1]) = Len(in[2])
    /\ X = {} /\ A = << >> /\ b = << >>
    /\ J = << >> /\ h = << >> /\ offset = 0
    /\ P = << >> /\ objective = << >> /\ alpha = 0 /\ Q = << >>
    /\ sp_file_id = 0 /\ body = NoBody
    /\ sp_response = "none" /\ penalty_only_response = "none"
    /\ printed = NothingPrinted
    /\ pcSP = "cell3"
    /\ uploaded = NoUpload
    /\ IdleD
    /\ IdleH

\* cell 3: X = union of all S_i
Cell3_X ==
    /\ pcSP = "cell3"
    /\ X' = UnionOf(S)
    /\ pcSP' = "cell4"
    /\ UNCHANGED <<S, W, A, b, J, h, offset, P, objective, alpha, Q, sp_file_id,
                   body, sp_response, penalty_only_response, printed, uploaded, varsD, varsH>>

\* cell 4: the constraint matrix
Cell4_A ==
    /\ pcSP = "cell4"
    /\ A' = ConstraintMatrix(S, X)
    /\ pcSP' = "cell5"
    /\ UNCHANGED <<S, W, X, b, J, h, offset, P, objective, alpha, Q, sp_file_id,
                   body, sp_response, penalty_only_response, printed, uploaded, varsD, varsH>>

\* cell 5: b
Cell5_b ==
    /\ pcSP = "cell5"
    /\ b' = Ones(A)
    /\ pcSP' = "cell6"
    /\ UNCHANGED <<S, W, X, A, J, h, offset, P, objective, alpha, Q, sp_file_id,
                   body, sp_response, penalty_only_response, printed, uploaded, varsD, varsH>>

\* cell 6: J, h, offset
Cell6_JhOffset ==
    /\ pcSP = "cell6"
    /\ J' = QuadraticTerms(A)
    /\ h' = LinearTerms(A, b)
    /\ offset' = Offset(b)
    /\ pcSP' = "cell8"
    /\ UNCHANGED <<S, W, X, A, b, P, objective, alpha, Q, sp_file_id,
                   body, sp_response, penalty_only_response, printed, uploaded, varsD, varsH>>

\* cell 8: P
Cell8_P ==
    /\ pcSP = "cell8"
    /\ P' = PenaltyQubo(J, h)
    /\ pcSP' = "cell9"
    /\ UNCHANGED <<S, W, X, A, b, J, h, offset, objective, alpha, Q, sp_file_id,
                   body, sp_response, penalty_only_response, printed, uploaded, varsD, varsH>>

\* cells 9 and 17: file_id = client.upload_file(M, file_type="qubo")["file_id"];
\* the service answers with a new file id, or the call raises
UploadQubo(at, M, next) ==
    /\ pcSP = at
    /\ uploaded' = [file_type |-> "qubo", data |-> M]
    /\ \/ sp_file_id' = sp_file_id + 1 /\ pcSP' = next
       \/ sp_file_id' = sp_file_id /\ pcSP' = "failed"
    /\ UNCHANGED <<S, W, X, A, b, J, h, offset, P, objective, alpha, Q,
                   body, sp_response, penalty_only_response, printed, varsD, varsH>>

Cell9_Upload == UploadQubo("cell9", P, "cell10")

\* cells 10 and 18: body = client.build_job_body("sample-qubo", qubo_file_id=file_id, ...)
BuildQuboBody(at, next) ==
    /\ pcSP = at
    /\ body' = [job_type |-> "sample-qubo", qubo_file_id |-> sp_file_id,
                sampler_type |-> "eqc1", n_samples |-> 5]
    /\ pcSP' = next
    /\ UNCHANGED <<S, W, X, A, b, J, h, offset, P, objective, alpha, Q, sp_file_id,
                   sp_response, penalty_only_response, printed, uploaded, varsD, varsH>>

Cell10_Body == BuildQuboBody("cell10", "cell11")

\* cells 11 and 19: response = client.process_job("sample-qubo", body); the
\* samples of the response are the sampler's and are read by check_result
ProcessQuboJob(at, name, next) ==
    /\ pcSP = at
    /\ \/ sp_response' = name /\ pcSP' = next
       \/ sp_response' = sp_response /\ pcSP' = "failed"
    /\ UNCHANGED <<S, W, X, A, b, J, h, offset, P, objective, alpha, Q, sp_file_id,
                   body, penalty_only_response, printed, uploaded, varsD, varsH>>

Cell11_ProcessJob == ProcessQuboJob("cell11", "penalty_job", "cell13")

\* a check_result call, up to its prints for one sample: the loop over the
\* samples carries nothing from one sample to the next, and a sample is any
\* binary vector the sampler returned
CheckResultCell(at, withObjective, save, next) ==
    /\ pcSP = at
    /\ \E sample \in BinaryVectors(Len(S)) :
          printed' = CheckSample(sample, withObjective)
    /\ penalty_only_response' = IF save THEN sp_response ELSE penalty_only_response
    /\ pcSP' = next
    /\ UNCHANGED <<S, W, X, A, b, J, h, offset, P, objective, alpha, Q, sp_file_id,
                   body, sp_response, uploaded, varsD, varsH>>

\* check_result returns and the cell ends: the next cell has its own output
CheckResultReturn(at, next) ==
    /\ pcSP = at
    /\ printed' = NothingPrinted
    /\ pcSP' = next
    /\ UNCHANGED <<S, W, X, A, b, J, h, offset, P, objective, alpha, Q, sp_file_id,
                   body, sp_response, penalty_only_response, uploaded, varsD, varsH>>

\* cell 13: check_result(response["results"]); penalty_only_response = response
Cell13_CheckResult == CheckResultCell("cell13", FALSE, TRUE, "cell13_printed")

Cell13_Return == CheckResultReturn("cell13_printed", "cell14")

\* cell 14: objective
Cell14_Objective ==
    /\ pcSP = "cell14"
    /\ objective' = ObjectiveMatrix(W, S)
    /\ pcSP' = "cell15"
    /\ UNCHANGED <<S, W, X, A, b, J, h, offset, P, alpha, Q, sp_file_id,
                   body, sp_response, penalty_only_response, printed, uploaded, varsD, varsH>>

\* cell 15: alpha
Cell15_Alpha ==
    /\ pcSP = "cell15"
    /\ alpha' = Alpha(objective)
    /\ pcSP' = "cell16"
    /\ UNCHANGED <<S, W, X, A, b, J, h, offset, P, objective, Q, sp_file_id,
                   body, sp_response, penalty_only_response, printed, uploaded, varsD, varsH>>

\* cell 16: Q
Cell16_Q ==
    /\ pcSP = "cell16"
    /\ Q' = TotalQubo(objective, alpha, P)
    /\ pcSP' = "cell17"
    /\ UNCHANGED <<S, W, X, A, b, J, h, offset, P, objective, alpha, sp_file_id,
                   body, sp_response, penalty_only_response, printed, uploaded, varsD, varsH>>

Cell17_Upload == UploadQubo("cell17", Q, "cell18")

Cell18_Body == BuildQuboBody("cell18", "cell19")

Cell19_ProcessJob == ProcessQuboJob("cell19", "total_job", "cell20")

\* cell 20: check_result(response["results"], objective)
Cell20_CheckResult == CheckResultCell("cell20", TRUE, FALSE, "cell20_printed")

Cell20_Return == CheckResultReturn("cell20_printed", "cell21")

\* cell 21: check_result(penalty_only_response["results"], objective)
Cell21_CheckResult == CheckResultCell("cell21", TRUE, FALSE, "cell21_printed")

Cell21_Return == CheckResultReturn("cell21_printed", "end")

NextSP ==
    \/ Cell3_X
    \/ Cell4_A
    \/ Cell5_b
    \/ Cell6_JhOffset
    \/ Cell8_P
    \/ Cell9_Upload
    \/ Cell10_Body
    \/ Cell11_ProcessJob
    \/ Cell13_CheckResult
    \/ Cell13_Return
    \/ Cell14_Objective
    \/ Cell15_Alpha
    \/ Cell16_Q
    \/ Cell17_Upload
    \/ Cell18_Body
    \/ Cell19_ProcessJob
    \/ Cell20_CheckResult
    \/ Cell20_Return
    \/ Cell21_CheckResult
    \/ Cell21_Return

SpecSP == InitSP /\ [][NextSP]_vars

---------------------------------------------------------------------------
(* The Dirac-3 tutorial: the cells.  The notebook is run from top to bottom; *)
(* a cell runs its statements in order, and an exception that nothing        *)
(* catches ends the cell and with it the run (pc = "raised").                *)

\* the set-partition notebook is not running
IdleSP ==
    /\ S = << >> /\ W = << >> /\ X = {} /\ A = << >> /\ b = << >>
    /\ J = << >> /\ h = << >> /\ offset = 0
    /\ P = << >> /\ objective = << >> /\ alpha = 0 /\ Q = << >>
    /\ sp_file_id = 0 /\ body = NoBody
    /\ sp_response = "none" /\ penalty_only_response = "none"
    /\ printed = NothingPrinted
    /\ pcSP = "idle"

\* cells 1 to 3 have run: the client is connected, nothing has been sampled
Init ==
    /\ IdleSP
    /\ cell = "cell4" /\ pc = "call" /\ iteration = 0
    /\ H = << >> /\ file_id = 0 /\ job_body = NoJobBody
    /\ sh_response = << >> /\ response = << >> /\ results = None
    /\ super_test = << >>
    /\ error = NoError
    /\ ops = << >> /\ files = 0 /\ jobs = 0 /\ outstanding = 0 /\ parsed = FALSE
    /\ uploaded = NoUpload
    /\ IdleH

\* the exception is swallowed and the cell goes on with its next iteration
RaiseSwallowed(type, message, from, details) ==
    /\ pc' = "next"
    /\ error' = [type |-> type, message |-> message, from |-> from,
                 details |-> details]

\* an exception raised by `from`: neither sample_hamiltonian nor a cell has a
\* try statement, so it ends the run
Raise(type, message, from, details) ==
    /\ pc' = "raised"
    /\ error' = [type |-> type, message |-> message, from |-> from,
                 details |-> details]

\* the call sample_hamiltonian(C, J, sum_constraint, schedule, precision, client),
\* up to ham_file
SH_Enter ==
    /\ pc = "call"
    /\ H' = Hamiltonian(CallArgs(cell, iteration).C, CallArgs(cell, iteration).J)
    /\ ops' = << >>
    /\ pc' = "upload"
    /\ UNCHANGED <<cell, iteration, file_id, job_body, sh_response, response,
                   results, super_test, error, files, jobs, outstanding, parsed,
                   uploaded, varsSP, varsH>>

\* file_id = client.upload_file(ham_file)["file_id"]: the service stores the
\* file under a new id, or the call raises
SH_Upload ==
    /\ pc = "upload"
    /\ uploaded' = HamFile(H)
    /\ \/ /\ files' = files + 1
          /\ file_id' = files + 1
          /\ ops' = Append(ops, [op |-> "upload_file", arg |-> HamFile(H),
                                 ret |-> [file_id |-> files + 1]])
          /\ pc' = "build"
          /\ UNCHANGED error
       \/ /\ ops' = Append(ops, [op |-> "upload_file", arg |-> HamFile(H),
                                 ret |-> None])
          /\ Raise("RequestError", "", "upload_file", None)
          /\ UNCHANGED <<files, file_id>>
    /\ UNCHANGED <<cell, iteration, H, job_body, sh_response, response, results,
                   super_test, jobs, outstanding, parsed, varsSP, varsH>>

\* job_body = client.build_job_body(...), or the call raises
SH_BuildJobBody ==
    /\ pc = "build"
    /\ \/ /\ job_body' = JobBody(file_id, CallArgs(cell, iteration))
          /\ ops' = Append(ops, [op |-> "build_job_body", arg |-> file_id,
                                 ret |-> JobBody(file_id, CallArgs(cell, iteration))])
          /\ pc' = "process"
          /\ UNCHANGED error
       \/ /\ ops' = Append(ops, [op |-> "build_job_body", arg |-> file_id,
                                 ret |-> None])
          /\ Raise("AssertionError", "", "build_job_body", None)
          /\ UNCHANGED job_body
    /\ UNCHANGED <<cell, iteration, H, file_id, sh_response, response, results,
                   super_test, files, jobs, outstanding, parsed, uploaded, varsSP, varsH>>

\* client.process_job(job_type=..., job_body=job_body, wait=True), its start:
\* the service accepts the job, or the call raises
SH_Submit ==
    /\ pc = "process"
    /\ \/ /\ jobs' = jobs + 1
          /\ outstanding' = outstanding + 1
          /\ ops' = Append(ops, [op |-> "process_job", arg |-> job_body,
                                 ret |-> Pending])
          /\ pc' = "wait"
          /\ UNCHANGED error
       \/ /\ ops' = Append(ops, [op |-> "process_job", arg |-> job_body,
                                 ret |-> None])
          /\ Raise("RequestError", "", "process_job", None)
          /\ UNCHANGED <<jobs, outstanding>>
    /\ UNCHANGED <<cell, iteration, H, file_id, job_body, sh_response, response,
                   results, super_test, files, parsed, uploaded, varsSP, varsH>>

\* wait=False: process_job returns while the job is still running
AfterNoWait(n) == n

\* wait=True: the job is terminal when process_job returns
AfterWait(n) == n - 1

\* process_job polls until the job is terminal and returns the response, or
\* the polling raises and the job is left on the service
SH_JobDone ==
    /\ pc = "wait"
    /\ \/ \E r \in Responses(jobs) :
             /\ sh_response' = r
             /\ ops' = [ops EXCEPT ![Len(ops)].ret = r]
             /\ outstanding' = AfterWait(outstanding)
             /\ pc' = "return"
             /\ UNCHANGED error
       \/ /\ Raise("RequestError", "", "process_job", None)
          /\ UNCHANGED <<sh_response, ops, outstanding>>
    /\ UNCHANGED <<cell, iteration, H, file_id, job_body, response, results,
                   super_test, files, jobs, parsed, uploaded, varsSP, varsH>>

\* return response
ReturnValue(r) == r

\* response = sample_hamiltonian(...): the call returns and the cell's global
\* is assigned
SH_Return ==
    /\ pc = "return"
    /\ response' = ReturnValue(sh_response)
    /\ parsed' = FALSE
    /\ pc' = IF cell = "cell4" THEN "if_job_info" ELSE "get_results"
    /\ UNCHANGED <<cell, iteration, H, file_id, job_body, sh_response, results,
                   super_test, error, ops, files, jobs, outstanding, uploaded, varsSP, varsH>>

\* cell 4: if "job_info" in response: ... else: print(response)
Cell4_IfJobInfo ==
    /\ pc = "if_job_info"
    /\ pc' = IF "job_info" \in DOMAIN response THEN "print_status" ELSE "next"
    /\ UNCHANGED <<cell, iteration, H, file_id, job_body, sh_response, response,
                   results, super_test, error, ops, files, jobs, outstanding,
                   parsed, uploaded, varsSP, varsH>>

\* print("Status:", response["job_info"]["details"]["status"])
PrintStatus ==
    /\ pc = "print_status"
    /\ IF /\ "job_info" \in DOMAIN response
          /\ "details" \in DOMAIN response.job_info
       THEN /\ pc' = IF cell = "cell4" THEN "get_results" ELSE "get_results_again"
            /\ UNCHANGED error
       ELSE Raise("KeyError", "details", "print_status", None)
    /\ UNCHANGED <<cell, iteration, H, file_id, job_body, sh_response, response,
                   results, super_test, ops, files, jobs, outstanding, parsed,
                   uploaded, varsSP, varsH>>

\* results = get_results(response), at either place of a cell
GetResultsStep(at, next) ==
    /\ pc = at
    /\ LET g == GetResults(response)
       IN  IF g.outcome = "return"
           THEN /\ results' = g.value
                /\ parsed' = TRUE
                /\ pc' = next
                /\ UNCHANGED error
           ELSE /\ Raise(g.type, g.message, "get_results", g.details)
                /\ UNCHANGED <<results, parsed>>
    /\ UNCHANGED <<cell, iteration, H, file_id, job_body, sh_response, response,
                   super_test, ops, files, jobs, outstanding, uploaded, varsSP, varsH>>

\* cell 4 line 169, cell 5 line 315, cell 8 line 463
CallGetResults ==
    GetResultsStep("get_results",
                   IF cell = "cell5" THEN "print_status" ELSE "use_results")

\* cell 5 line 317: results = get_results(response), a second time
CallGetResultsAgain == GetResultsStep("get_results_again", "use_results")

\* round(v, 1) of a value in hundredths, as a value in tenths; no value of the
\* model lies halfway
RoundTenths(v) == (v + 5) \div 10

\* cell 8: the rounded solution as a tuple, counted in super_test
CountSolution(st, sol) ==
    LET key == [i \in 1..Len(sol) |-> RoundTenths(sol[i])]
    IN  IF key \in DOMAIN st
        THEN [st EXCEPT ![key] = @ + 1]
        ELSE [x \in DOMAIN st \cup {key} |-> IF x = key THEN 1 ELSE st[x]]

\* the statements that read results["energies"][0] and results["solutions"][0]
UseResults ==
    /\ pc = "use_results"
    /\ IF cell = "cell8"
       THEN IF "solutions" \in DOMAIN results
            THEN /\ super_test' = CountSolution(super_test, results.solutions[1])
                 /\ pc' = "next"
                 /\ UNCHANGED error
            ELSE /\ Raise("KeyError", "solutions", "use_results", None)
                 /\ UNCHANGED super_test
       ELSE IF "energies" \in DOMAIN results /\ "solutions" \in DOMAIN results
            THEN /\ pc' = "next"
                 /\ UNCHANGED <<error, super_test>>
            ELSE /\ Raise("KeyError", "solutions", "use_results", None)
                 /\ UNCHANGED super_test
    /\ UNCHANGED <<cell, iteration, H, file_id, job_body, sh_response, response,
                   results, ops, files, jobs, outstanding, parsed, uploaded, varsSP, varsH>>

\* the cell that follows cell c in the notebook
NextCell(c) ==
    CASE c = "cell4" -> "cell5"
      [] c = "cell5" -> "cell8"
      [] OTHER -> "end"

\* the end of a loop body: the next iteration, or the next cell (cell 8 starts
\* with super_test = {})
NextIteration ==
    /\ pc = "next"
    /\ IF iteration + 1 < Iterations(cell)
       THEN /\ iteration' = iteration + 1
            /\ pc' = "call"
            /\ UNCHANGED <<cell, super_test>>
       ELSE /\ cell' = NextCell(cell)
            /\ iteration' = 0
            /\ pc' = IF NextCell(cell) = "end" THEN "end" ELSE "call"
            /\ super_test' = << >>
    /\ UNCHANGED <<H, file_id, job_body, sh_response, response, results, error,
                   ops, files, jobs, outstanding, parsed, uploaded, varsSP, varsH>>

Next ==
    \/ SH_Enter
    \/ SH_Upload
    \/ SH_BuildJobBody
    \/ SH_Submit
    \/ SH_JobDone
    \/ SH_Return
    \/ Cell4_IfJobInfo
    \/ PrintStatus
    \/ CallGetResults
    \/ CallGetResultsAgain
    \/ UseResults
    \/ NextIteration

Spec == Init /\ [][Next]_vars

\* either notebook, run from its first cell
SpecEither == (Init \/ InitSP) /\ [][Next \/ NextSP]_vars

---------------------------------------------------------------------------
(* The Dirac-3 tutorial: the value h.T@x + x.T@J@x of a solution.  A          *)
(* solution is a vector of non-negative multiples of solution_precision that *)
(* add up to the summation constraint of the call.                           *)

\* the steps of solution_precision = 0.1 in one unit
StepsPerUnit == 100000 \div SolutionPrecision

\* values of h.T@x + x.T@J@x are kept in units of 1/(CoefScale*StepsPerUnit^2)
EnergyUnit == CoefScale * StepsPerUnit * StepsPerUnit

\* h of the cell that was run last
ExampleH(e) == CASE e = 1 -> h1 [] e = 2 -> h2 [] OTHER -> h3

\* J of the cell that was run last
ExampleJ(e) == CASE e = 1 -> J1 [] e = 2 -> J2 [] OTHER -> J3

\* the non-negative vectors of three components, in steps, that add up to sc
Solutions(sc) ==
    LET T == sc * StepsPerUnit
    IN  {<<p[1], p[2], T - p[1] - p[2]>> :
            p \in {q \in (0..T) \X (0..T) : q[1] + q[2] <= T}}

\* x.T@J@x alone
EnergyQuadraticOnly(hm, Jm, xs) == Quad(Jm, xs)

\* h.T@x + x.T@J@x, for x in steps
Energy(hm, Jm, xs) ==
    StepsPerUnit * SumSeq([r \in 1..Len(hm) |-> hm[r][1] * xs[r]]) + Quad(Jm, xs)

\* h and J are set, and a solution for some summation constraint is at hand
InitH ==
    /\ IdleSP /\ IdleD /\ uploaded = NoUpload
    /\ example \in {1, 2, 3}
    /\ Rsum \in 1..MaxSumConstraint
    /\ solution \in Solutions(Rsum)
    /\ solution_value = 0 /\ known_ground_state = 0
    /\ pcH = "solution"

\* print("Solution Value (should match energy)", h.T@solution + solution.T@J@solution)
SolutionValue ==
    /\ pcH = "solution"
    /\ solution_value' = Energy(ExampleH(example), ExampleJ(example), solution)
    /\ pcH' = "known"
    /\ UNCHANGED <<example, Rsum, solution, known_ground_state, varsSP, varsD, uploaded>>

\* cell 4, with the first example's h and J:
\* x = np.array([400, 0, 0]); print("Known ground state", h.T@x + x.T@J@x)
KnownGroundState ==
    /\ pcH = "known" /\ example = 1
    /\ known_ground_state' =
           Energy(ExampleH(example), ExampleJ(example), <<400 * StepsPerUnit, 0, 0>>)
    /\ pcH' = "end"
    /\ UNCHANGED <<example, Rsum, solution, solution_value, varsSP, varsD, uploaded>>

NextH ==
    \/ SolutionValue
    \/ KnownGroundState

SpecH == InitH /\ [][NextH]_vars

---------------------------------------------------------------------------
(* Properties of the set-partition notebook, checked under SpecSP *)

\* the number of selected sets that hold x
TimesCovered(x, s) == Cardinality({i \in 1..Len(S) : s[i] = 1 /\ x \in S[i]})

\* the selected sets form a set partition of X
ExactlyOnce(s) == \A x \in X : TimesCovered(x, s) = 1

\* every member of X is in a selected set
AllCovered(s) == \A x \in X : TimesCovered(x, s) >= 1

\* no member of X is in two selected sets
NoneTwice(s) == \A x \in X : TimesCovered(x, s) <= 1

\* check_result printed "Set coverage 100.0%"
PrintedFullCoverage == printed.coverage.num = 100 * printed.coverage.den

IsSquareOfSize(M, n) == Len(M) = n /\ \A r \in 1..Len(M) : Len(M[r]) = n

IsSymmetric(M) == \A r \in 1..Len(M) : \A c \in 1..Len(M) : M[r][c] = M[c][r]

\* s^T Q s, the value of the total function
QValue(s) == Quad(Q, s)

\* C1: once cell 6 has built J, h and offset (they are never assigned again),
\* for every binary selection vector s the penalty s^T J s + h^T s + offset is
\* 0 when A s = b and strictly positive when some constraint is violated.
C1_PenaltyZeroIffConstraintsMet ==
    pcSP = "cell8" =>
        \A s \in BinaryVectors(Len(S)) :
            /\ Feasible(s) => Penalty(s) = 0
            /\ ~Feasible(s) => Penalty(s) > 0

\* C1 witness: the tutorial's penalty is built, and it has both a selection that
\* meets every constraint and one that violates a constraint.
C1_Witness ==
    /\ pcSP = "cell8"
    /\ S = TutorialS
    /\ \E s \in BinaryVectors(Len(S)) : Feasible(s) /\ Penalty(s) = 0
    /\ \E s \in BinaryVectors(Len(S)) : ~Feasible(s) /\ Penalty(s) > 0

\* C2: for the tutorial's S and W, with alpha = np.max(objective) and
\* Q = objective + alpha * P, no infeasible selection s has a value s^T Q s
\* below the value t^T Q t of a feasible selection t.
C2_NoInfeasibleBelowFeasible ==
    (pcSP = "cell17" /\ S = TutorialS /\ W = TutorialW) =>
        \A s \in BinaryVectors(Len(S)) :
            ~Feasible(s) =>
                \A t \in BinaryVectors(Len(S)) :
                    Feasible(t) => QValue(s) >= QValue(t)

\* C3 as stated: check_result prints "Partition found: True" only if every
\* member of X lies in exactly one selected set.
C3_PartitionFoundOnlyIfPartition ==
    (printed.valid /\ printed.partition) => ExactlyOnce(printed.sample)

\* C3 as amended: check_result prints "Partition found: True" only if no member
\* of X lies in more than one selected set (the selected sets are disjoint);
\* they form a set partition of X when, besides, it prints full coverage.
C3_PartitionFoundOnlyIfDisjoint ==
    (printed.valid /\ printed.partition) =>
        /\ NoneTwice(printed.sample)
        /\ PrintedFullCoverage => ExactlyOnce(printed.sample)

\* C3 witness: "Partition found: True" printed for a selection of two or more
\* sets that leaves a member of X out.
C3_Witness ==
    /\ printed.valid /\ printed.partition
    /\ Len(printed.selected) >= 2
    /\ ~AllCovered(printed.sample)

\* C4: for every binary sample, check_result prints full coverage iff every
\* member of X is in at least one selected set, prints "Partition found: True"
\* iff no member is in more than one selected set, and prints both exactly when
\* the sample is an exact cover, A s = b.
C4_CoverageAndPartitionIffExactCover ==
    printed.valid =>
        /\ PrintedFullCoverage <=> AllCovered(printed.sample)
        /\ printed.partition <=> NoneTwice(printed.sample)
        /\ (PrintedFullCoverage /\ printed.partition) <=> Feasible(printed.sample)

\* C4 witness: both lines printed for an exact cover of three sets of the
\* tutorial's collection.
C4_Witness ==
    /\ printed.valid /\ PrintedFullCoverage /\ printed.partition
    /\ S = TutorialS
    /\ Len(printed.selected) = 3
    /\ Feasible(printed.sample)

\* C10: whenever P (cell 8) and Q (cell 16) are built they are square of size
\* |S| x |S| and symmetric, for every collection and weight list.
C10_QubosSquareSymmetric ==
    /\ pcSP \notin {"cell3", "cell4", "cell5", "cell6", "cell8"} =>
           IsSquareOfSize(P, Len(S)) /\ IsSymmetric(P)
    /\ pcSP \in {"cell17", "cell18", "cell19", "cell20", "cell20_printed",
                 "cell21", "cell21_printed", "end"} =>
           IsSquareOfSize(Q, Len(S)) /\ IsSymmetric(Q)

\* C10 witness: Q is built for a collection of two or more sets whose P has a
\* non-zero entry off the diagonal and two different diagonal entries.
C10_Witness ==
    /\ pcSP = "cell17"
    /\ Len(S) >= 2
    /\ P[1][2] # 0
    /\ Q[1][1] # Q[2][2]

---------------------------------------------------------------------------
(* Properties of the Dirac-3 tutorial, checked under Spec *)

\* the client calls of sample_hamiltonian, in the order of its statements
CallOrder == <<"upload_file", "build_job_body", "process_job">>

IsPrefix(s, t) == Len(s) <= Len(t) /\ \A i \in 1..Len(s) : s[i] = t[i]

\* an exception has been raised
Failed == error # NoError

\* the last sample_hamiltonian call has returned to its cell
Returned ==
    \/ pc \in {"if_job_info", "print_status", "get_results", "get_results_again",
               "use_results", "next"}
    \/ pc \in {"call", "end"} /\ jobs > 0
    \/ pc = "raised" /\ error.from \in {"print_status", "get_results", "use_results"}

\* the statements before the job of the running call is handed to the service
BeforeSubmit == {"call", "upload", "build", "process"}

\* the statements `results = get_results(response)`
AtGetResults == {"get_results", "get_results_again"}

\* C5: in every sample_hamiltonian call the client calls are made at most once
\* each and in the order upload_file, build_job_body, process_job (a call that
\* raises stops there); a call that returns has made all three, the
\* hamiltonian_file_id of its job body is the file_id its own upload returned,
\* process_job has returned by then, and the cell receives process_job's
\* response unchanged.
C5_UploadBuildProcessOnceInOrder ==
    /\ IsPrefix(OpNames, CallOrder)
    /\ pc = "return" \/ Returned =>
           /\ OpNames = CallOrder
           /\ ops[1].ret = [file_id |-> files]
           /\ ops[2].ret.hamiltonian_file_id = ops[1].ret.file_id
           /\ ops[3].arg = ops[2].ret
           /\ ops[3].ret \notin {Pending, None}
           /\ sh_response = ops[3].ret
    /\ Returned => response = ops[3].ret

\* C5 witness: the third call of the S-loop has returned to its cell with a
\* response that carries results.
C5_Witness ==
    /\ cell = "cell5" /\ iteration = 2 /\ pc = "get_results"
    /\ "results" \in DOMAIN response
    /\ files = 4 /\ jobs = 4

\* C6 as stated: at most one job is outstanding, and whenever the upload and
\* submission of a further job are about to start, the previous job's
\* process_job has returned and get_results has parsed its response.
C6_NextJobAfterParse ==
    /\ outstanding <= 1
    /\ (pc \in BeforeSubmit /\ jobs > 0) => (outstanding = 0 /\ parsed)

\* C6 as amended: at most one job is outstanding, and whenever the upload and
\* submission of a further job are about to start, the previous job's
\* process_job has returned; get_results has parsed its response, except for
\* the response of the single call of cell 4 when it has no "job_info" (the
\* cell then prints it and get_results is not called).
C6_NextJobAfterReturn ==
    /\ outstanding <= 1
    /\ (pc \in BeforeSubmit /\ jobs > 0) =>
           /\ outstanding = 0
           /\ \/ parsed
              \/ cell = "cell5" /\ iteration = 0 /\ "job_info" \notin DOMAIN response

\* C6 witness: the second job of the degeneracy loop is about to be uploaded,
\* after the first one returned and was parsed.
C6_Witness ==
    /\ cell = "cell8" /\ iteration = 1 /\ pc = "upload"
    /\ jobs = 8 /\ outstanding = 0 /\ parsed

\* C7: an exception ends the run where it is raised: it is not swallowed, after
\* a failed upload_file the call has built no job body and submitted no job, and
\* after any failure nothing is uploaded, built or submitted any more, in this
\* iteration or a later one.
C7_FailureIsFatal ==
    /\ [](Failed => pc = "raised")
    /\ []((Failed /\ error.from = "upload_file") => OpNames = <<"upload_file">>)
    /\ [][Failed => /\ pc' = "raised"
                    /\ UNCHANGED <<cell, iteration, error, ops, files, jobs, uploaded>>]_vars

\* C7 witness: the upload of the third iteration of the S-loop has failed, after
\* three jobs ran to their end.
C7_Witness ==
    /\ Failed /\ error.from = "upload_file"
    /\ cell = "cell5" /\ iteration = 2
    /\ files = 3 /\ jobs = 3

\* C8: when the response has no "results" key or its "results" is None,
\* get_results raises RuntimeError('Execution failed...') with the details
\* response["job_info"]["job_result"] if both keys are there and None if not,
\* and `results` is not assigned.
C8_NoResultsRaisesRuntimeError ==
    [][(pc \in AtGetResults
          /\ ("results" \notin DOMAIN response \/ response.results = None))
       => /\ pc' = "raised"
          /\ error'.type = "RuntimeError"
          /\ error'.message = "Execution failed. See details"
          /\ error'.from = "get_results"
          /\ error'.details =
                 IF "job_info" \notin DOMAIN response THEN None
                 ELSE IF "job_result" \notin DOMAIN response.job_info THEN None
                 ELSE response.job_info.job_result
          /\ results' = results
          /\ parsed' = parsed]_vars

\* C8 witness: get_results has raised RuntimeError with the job_result of a
\* response whose "results" is None.
C8_Witness ==
    /\ pc = "raised" /\ error.type = "RuntimeError" /\ error.from = "get_results"
    /\ "results" \in DOMAIN response /\ response.results = None
    /\ error.details = JobResult

\* C9: when "results" is there and not None and its file_config holds no entry,
\* or two or more, get_results fails with the assertion 'Unknown results format'
\* and `results` is not assigned.
C9_MalformedResultsRaiseAssertion ==
    [][(/\ pc \in AtGetResults
        /\ "results" \in DOMAIN response
        /\ response.results # None
        /\ "file_config" \in DOMAIN response.results
        /\ Cardinality(DOMAIN response.results.file_config) # 1)
       => /\ pc' = "raised"
          /\ error'.type = "AssertionError"
          /\ error'.message = "Unknown results format"
          /\ error'.from = "get_results"
          /\ results' = results
          /\ parsed' = parsed]_vars

\* C9 witness: get_results has failed with the assertion on a file_config of
\* two entries.
C9_Witness ==
    /\ pc = "raised" /\ error.type = "AssertionError" /\ error.from = "get_results"
    /\ Cardinality(DOMAIN response.results.file_config) = 2

---------------------------------------------------------------------------
(* Properties of the files handed to upload_file, checked under SpecEither *)

IsSquare(M) == \A r \in 1..Len(M) : Len(M[r]) = Len(M)

\* C11 as stated: every coefficient matrix handed to upload_file is square,
\* the Hamiltonian H of sample_hamiltonian included.
C11_EveryUploadSquare ==
    uploaded # NoUpload => IsSquare(uploaded.data)

\* C11: every QUBO handed to upload_file (P, Q) is square of size |S| x |S|;
\* the Hamiltonian H handed to upload_file has n rows and n + 1 columns,
\* n = C.shape[0]: when upload_file returns it is the column C followed by
\* the n x n matrix J of the call.
C11_QuboSquareHamiltonianWide ==
    /\ uploaded.file_type = "qubo" => IsSquareOfSize(uploaded.data, Len(S))
    /\ uploaded.file_type = "hamiltonian" =>
           /\ Len(uploaded.data) > 0
           /\ \A r \in 1..Len(uploaded.data) :
                  Len(uploaded.data[r]) = Len(uploaded.data) + 1
    /\ pc = "build" =>
           LET a == CallArgs(cell, iteration)
               n == Len(a.C)
           IN  /\ uploaded.file_type = "hamiltonian"
               /\ Len(uploaded.data) = n
               /\ \A r \in 1..n :
                      /\ Len(uploaded.data[r]) = n + 1
                      /\ uploaded.data[r][1] = a.C[r][1]
                      /\ SubSeq(uploaded.data[r], 2, n + 1) = a.J[r]
               /\ IsSquareOfSize(a.J, n)

\* C11 witness: sample_hamiltonian has uploaded the 3 x 4 Hamiltonian of the
\* polynomial example (cell 5).
C11_Witness ==
    /\ uploaded.file_type = "hamiltonian"
    /\ cell = "cell5" /\ pc = "build"
    /\ Len(uploaded.data) = 3
    /\ Len(uploaded.data[1]) = 4

---------------------------------------------------------------------------
(* Further properties of Set-Partition-Tutorial.ipynb, checked under SpecSP *)

\* C12: once cell 8 has built P = J + np.diag(h), for every binary s
\* s^T P s = s^T J s + h^T s; hence s^T P s >= -|X|, with equality exactly
\* when every member of X lies in exactly one selected set (an exact cover).
C12_DiagonalLinearTermsEquivalent ==
    pcSP = "cell9" =>
        \A s \in BinaryVectors(Len(S)) :
            /\ Quad(P, s) = Quad(J, s) + Dot(h, s)
            /\ Quad(P, s) >= -Cardinality(X)
            /\ Quad(P, s) = -Cardinality(X) <=> ExactlyOnce(s)

\* C12 witness: the tutorial's P is built; some selection reaches -|X| = -6
\* and some selection with a non-zero linear part stays above it.
C12_Witness ==
    /\ pcSP = "cell9"
    /\ S = TutorialS
    /\ \E s \in BinaryVectors(Len(S)) :
           ExactlyOnce(s) /\ Quad(P, s) = -6
    /\ \E s \in BinaryVectors(Len(S)) :
           Dot(h, s) # 0 /\ Quad(J, s) # 0 /\ Quad(P, s) > -6

\* the smallest member of a non-empty finite set of integers
MinOf(vs) == CHOOSE v \in vs : \A w \in vs : v <= w

\* the selections of smallest value s^T M s
Minimisers(M) ==
    LET lowest == MinOf({Quad(M, s) : s \in BinaryVectors(Len(M))})
    IN  {s \in BinaryVectors(Len(M)) : Quad(M, s) = lowest}

\* C13: for the tutorial's S and W, every binary vector that minimises
\* s^T Q s is an exact cover of X and has the smallest objective value among
\* all exact covers, and it is the selection {S_0, S_1}; the penalty-only
\* QUBO P has more than one minimiser, and each of them is an exact cover.
C13_TutorialMinimisers ==
    (pcSP = "cell17" /\ S = TutorialS /\ W = TutorialW) =>
        /\ \A s \in Minimisers(Q) :
               /\ ExactlyOnce(s)
               /\ \A t \in BinaryVectors(Len(S)) :
                      ExactlyOnce(t) =>
                          ObjectiveValue(objective, s) <= ObjectiveValue(objective, t)
               /\ {i \in 1..Len(S) : s[i] = 1} = {1, 2}
        /\ Cardinality(Minimisers(P)) > 1
        /\ \A s \in Minimisers(P) : ExactlyOnce(s)

\* C13 witness: the tutorial's Q is built; {S_0, S_1} is an exact cover, and
\* another exact cover has a larger objective value.
C13_Witness ==
    /\ pcSP = "cell17" /\ S = TutorialS /\ W = TutorialW
    /\ ExactlyOnce(<<1, 1, 0, 0, 0, 0, 0, 0, 0>>)
    /\ <<1, 1, 0, 0, 0, 0, 0, 0, 0>> \in Minimisers(Q)
    /\ \E t \in Minimisers(P) :
           ObjectiveValue(objective, t) >
               ObjectiveValue(objective, <<1, 1, 0, 0, 0, 0, 0, 0, 0>>)

\* the sum of the weights of the sets check_result lists as S_i
WeightOfSelected(selected) ==
    SumSeq([k \in 1..Len(selected) |-> W[selected[k] + 1]])

\* C18: when check_result is called with the objective matrix, the
\* "Objective Function value" it prints for a binary sample is the sum of
\* the weights W[i] of exactly the sets S_i it lists as selected.
C18_ObjectiveValueIsWeightOfSelected ==
    (printed.valid /\ printed.hasObjective) =>
        /\ printed.objectiveValue = WeightOfSelected(printed.selected)
        /\ \A i \in 1..Len(S) :
               printed.sample[i] = 1 <=>
                   \E k \in 1..Len(printed.selected) : printed.selected[k] = i - 1

\* C18 witness: check_result has printed, with the objective, a sample that
\* selects two or more sets of different weight.
C18_Witness ==
    /\ printed.valid /\ printed.hasObjective
    /\ Len(printed.selected) >= 2
    /\ W[printed.selected[1] + 1] # W[printed.selected[2] + 1]
    /\ printed.objectiveValue =
           W[printed.selected[1] + 1] + W[printed.selected[2] + 1]

---------------------------------------------------------------------------
(* Further properties of the Dirac-3 tutorial, checked under Spec *)

\* C17: every job body that sample_hamiltonian hands to process_job carries a
\* relaxation_schedule that is one of 1, 2, 3, 4 and a sum_constraint between
\* 1 and 10,000.
C17_ScheduleAndSumConstraintInRange ==
    \A i \in 1..Len(ops) :
        ops[i].op = "process_job" =>
            /\ ops[i].arg.relaxation_schedule \in {1, 2, 3, 4}
            /\ ops[i].arg.sum_constraint >= 1
            /\ ops[i].arg.sum_constraint <= 10000

\* C17 witness: the job of the last iteration of cell 5 is submitted, with
\* schedule 3 and sum_constraint 7, after the job of cell 4 with schedule 1
\* and sum_constraint 400.
C17_Witness ==
    /\ cell = "cell5" /\ pc = "wait" /\ jobs = 7
    /\ ops[3].op = "process_job"
    /\ ops[3].arg.relaxation_schedule = 3
    /\ ops[3].arg.sum_constraint = 7
    /\ CallArgs("cell4", 0).schedule = 1
    /\ CallArgs("cell4", 0).sum_constraint = 400

\* C19: when the response's "results" is not None and its file_config holds
\* exactly one entry, get_results returns that entry's value, whatever the
\* entry's key and whatever job_info says: nothing is raised, also when
\* job_info's status is not "completed".
C19_SingleEntryReturnedWhateverJobInfo ==
    [][(/\ pc \in AtGetResults
        /\ HasResults(response)
        /\ "file_config" \in DOMAIN response.results
        /\ Cardinality(DOMAIN response.results.file_config) = 1)
       => /\ pc' # "raised"
          /\ error' = error
          /\ parsed'
          /\ \A key \in DOMAIN response.results.file_config :
                 results' = response.results.file_config[key]]_vars

\* C19 witness: get_results has returned the value of the single entry
\* "other_results" of a response whose job_info reports the status "error".
C19_Witness ==
    /\ parsed /\ pc # "raised"
    /\ "job_info" \in DOMAIN response
    /\ "details" \in DOMAIN response.job_info
    /\ response.job_info.details.status = "error"
    /\ HasResults(response)
    /\ "file_config" \in DOMAIN response.results
    /\ DOMAIN response.results.file_config = {"other_results"}
    /\ results = response.results.file_config["other_results"]

---------------------------------------------------------------------------
(* Properties of the value h.T@x + x.T@J@x, checked under SpecH *)

\* the solution that gives the whole summation constraint to component i
AllTo(i) == [c \in 1..3 |-> IF c = i THEN Rsum * StepsPerUnit ELSE 0]

\* the solution x1 = x3 = R/2, x2 = 0
SplitFirstThird ==
    <<(Rsum * StepsPerUnit) \div 2, 0, (Rsum * StepsPerUnit) \div 2>>

\* H(x) = -5 x1 x3 - 4 x2^2 - 10 x1 - 10 x3 in units of 1/EnergyUnit, for x in
\* steps
Polynomial(xs) ==
    CoefScale * (-5 * xs[1] * xs[3] - 4 * xs[2] * xs[2]
                 - 10 * StepsPerUnit * xs[1] - 10 * StepsPerUnit * xs[3])

\* C14: for the first example (h = [-1,0,0], J with 0 on the diagonal and 1
\* elsewhere) and every summation constraint R, every solution has a value of
\* at least -R, and only x = [R,0,0] has the value -R; for R = 400 that value
\* is -400.
C14_FirstExampleMinimisedByAllToFirst ==
    (example = 1 /\ pcH \in {"known", "end"}) =>
        /\ solution_value >= -Rsum * EnergyUnit
        /\ solution_value = -Rsum * EnergyUnit <=> solution = AllTo(1)
        /\ pcH = "end" => known_ground_state = -400 * EnergyUnit

\* C14 witness: the values of [R,0,0] and of the known ground state
\* [400,0,0] have been computed for the first example.
C14_Witness ==
    /\ example = 1 /\ pcH = "end"
    /\ Rsum = 4 /\ solution = AllTo(1)
    /\ solution_value = -4 * EnergyUnit
    /\ known_ground_state = -400 * EnergyUnit

\* C15: for h = [-10,0,-10] and J = [[0,0,-2.5],[0,-4,0],[-2.5,0,0]] the value
\* h^T x + x^T J x of every solution x equals H(x) = -5 x1 x3 - 4 x2^2 - 10 x1
\* - 10 x3; there is a threshold, R = 40/11, such that for every summation
\* constraint R above it the minimum is at x1 = x3 = 0, x2 = R and only there,
\* and for every R below it the minimum is at x1 = x3 = R/2, x2 = 0 and only
\* there.
C15_PolynomialThreshold ==
    (example = 2 /\ pcH = "known") =>
        LET E(xs) == Energy(h2, J2, xs)
        IN  /\ solution_value = Polynomial(solution)
            /\ 11 * Rsum > 40 =>
                   /\ solution_value >= E(AllTo(2))
                   /\ solution_value = E(AllTo(2)) <=> solution = AllTo(2)
            /\ 11 * Rsum < 40 =>
                   /\ solution_value >= E(SplitFirstThird)
                   /\ solution_value = E(SplitFirstThird) <=> solution = SplitFirstThird

\* C15 witness: a solution with all three components positive has been
\* evaluated for the polynomial below the threshold (R = 3).
C15_Witness ==
    /\ example = 2 /\ pcH = "known"
    /\ Rsum = 3
    /\ \A i \in 1..3 : solution[i] > 0
    /\ solution_value > Energy(h2, J2, SplitFirstThird)
    /\ Energy(h2, J2, SplitFirstThird) < Energy(h2, J2, AllTo(2))

\* C16: for the degenerate example (h = [-1,-1,-1], J with 0 on the diagonal
\* and 1 elsewhere) the vectors [S,0,0], [0,S,0] and [0,0,S] all have the
\* value -S, and no solution with sum S has a smaller value.
C16_DegenerateGroundStates ==
    (example = 3 /\ pcH = "known") =>
        /\ \A i \in 1..3 : Energy(h3, J3, AllTo(i)) = -Rsum * EnergyUnit
        /\ solution_value >= -Rsum * EnergyUnit
        /\ solution \in {AllTo(1), AllTo(2), AllTo(3)} =>
               solution_value = -Rsum * EnergyUnit

\* C16 witness: the value of [0,0,S] has been computed for the degenerate
\* example and is -S.
C16_Witness ==
    /\ example = 3 /\ pcH = "known"
    /\ Rsum = 7 /\ solution = AllTo(3)
    /\ solution_value = -7 * EnergyUnit

===========================================================================
